---- MODULE Spec2Model ----
(***************************************************************************)
(* Model of firstrade/positions.py (Position, Stock, Option and the option *)
(* symbol decoder) and firstrade/utils.py (parse_positions).               *)
(*                                                                         *)
(* A Python str is a sequence of one-character strings.  Python values of  *)
(* mixed type are tagged records (Int, Str, Bool, PyNone, Dict, List).       *)
(* A float strike k/1000.0 is represented by the integer k of thousandths  *)
(* (distinct k below 10^8 give distinct doubles).                          *)
(***************************************************************************)
EXTENDS Integers, Sequences, FiniteSets, TLC

VARIABLES symbol, source, decoded, option, data_input, outcome

vars == <<symbol, source, decoded, option, data_input, outcome>>

\* Bounds of the explored inputs.
MaxTickerLen == 2
MaxItems == 3
MaxOmitted == 2

-----------------------------------------------------------------------------
(* Characters and str methods                                              *)

AsciiDigits == {"0", "1", "2", "3", "4", "5", "6", "7", "8", "9"}

\* U+0663 ARABIC-INDIC DIGIT THREE: str.isdigit() is True and int() reads 3.
ArabicThree == "U+0663"

\* U+00B2 SUPERSCRIPT TWO: str.isdigit() is True but int() raises ValueError.
SuperTwo == "U+00B2"

Min(a, b) == IF a < b THEN a ELSE b

\* s[a:b] for 0 <= a <= b: the slice is cut at the end of the str.
Slice(s, a, b) == SubSeq(s, a + 1, Min(b, Len(s)))

isdigit(s) ==
    /\ Len(s) > 0
    /\ \A k \in 1..Len(s) : s[k] \in AsciiDigits \cup {ArabicThree, SuperTwo}

DigitVal(c) ==
    CASE c = "0" -> 0 [] c = "1" -> 1 [] c = "2" -> 2 [] c = "3" -> 3
      [] c = "4" -> 4 [] c = "5" -> 5 [] c = "6" -> 6 [] c = "7" -> 7
      [] c = "8" -> 8 [] c = "9" -> 9 [] c = ArabicThree -> 3

\* int(s) succeeds on a str of decimal digits (ASCII or other scripts).
IntParses(s) ==
    /\ Len(s) > 0
    /\ \A k \in 1..Len(s) : s[k] \in AsciiDigits \cup {ArabicThree}

RECURSIVE IntOf(_)
IntOf(s) ==
    IF Len(s) = 0 THEN 0
    ELSE 10 * IntOf(SubSeq(s, 1, Len(s) - 1)) + DigitVal(s[Len(s)])

-----------------------------------------------------------------------------
(* datetime(year, month, day)                                              *)

IsLeap(year) == year % 4 = 0 /\ (year % 100 # 0 \/ year % 400 = 0)

\* Mutant: every month but February has 31 days.
DaysInMonth_NoShortMonths(year, month) ==
    IF month = 2 THEN (IF IsLeap(year) THEN 29 ELSE 28) ELSE 31

DaysInMonth(year, month) ==
    IF month = 2 THEN (IF IsLeap(year) THEN 29 ELSE 28)
    ELSE IF month \in {4, 6, 9, 11} THEN 30 ELSE 31

\* "" when datetime(year, month, day) is constructed, else the ValueError text.
DatetimeError(year, month, day) ==
    IF year < 1 \/ year > 9999 THEN "year is out of range"
    ELSE IF month < 1 \/ month > 12 THEN "month must be in 1..12"
    ELSE IF day < 1 \/ day > DaysInMonth(year, month)
         THEN "day is out of range for month"
         ELSE ""

-----------------------------------------------------------------------------
(* Option.parse_option_symbol                                              *)

\* The test of the scan at 0-based position i.  i <= len - 14, so sym[i + 6]
\* exists and the first slice has 6 characters; the last slice has 8
\* characters, or the 7 that remain when i = len - 14.
MatchAt(sym, i) ==
    /\ isdigit(Slice(sym, i, i + 6))
    /\ i + 6 < Len(sym)
    /\ sym[i + 7] \in {"C", "P"}
    /\ isdigit(Slice(sym, i + 7, i + 15))

\* for i in range(len(symbol) - 14, -1, -1): the first i that matches, or -1
\* when the loop reaches its else branch.
RECURSIVE ScanFrom(_, _)
ScanFrom(sym, i) ==
    IF i < 0 THEN -1
    ELSE IF MatchAt(sym, i) THEN i
    ELSE ScanFrom(sym, i - 1)

\* Mutant: the scan starts two positions too far from the end.
FindSplit_StartsShort(sym) == ScanFrom(sym, Len(sym) - 16)

FindSplit(sym) == ScanFrom(sym, Len(sym) - 14)

\* The except clause: every ValueError is re-raised with the symbol in front.
ParseError(sym, cause) ==
    [ok |-> FALSE, exc |-> "ValueError",
     prefix |-> "Failed to parse option symbol ", symbol |-> sym,
     cause |-> cause]

\* 'Call' if symbol[i + 6] == 'C' else 'Put'
OptionTypeOf(c) == IF c = "C" THEN "Call" ELSE "Put"

\* Mutant: the century of the two-digit year is 1900.
YearOf_LastCentury(date_str) == IntOf(Slice(date_str, 0, 2)) + 1900

\* int(date_str[:2]) + 2000
YearOf(date_str) == IntOf(Slice(date_str, 0, 2)) + 2000

parse_option_symbol(sym) ==
    LET i == FindSplit(sym) IN
    IF i < 0 THEN ParseError(sym, "Invalid option symbol format")
    ELSE
      LET ticker == Slice(sym, 0, i)
          date_str == Slice(sym, i, i + 6)
          option_type == OptionTypeOf(sym[i + 7])
          strike_str == Slice(sym, i + 7, i + 15)
      IN
      IF ~IntParses(date_str)
      THEN ParseError(sym, "invalid literal for int() with base 10")
      ELSE
        LET year == YearOf(date_str)
            month == IntOf(Slice(date_str, 2, 4))
            day == IntOf(Slice(date_str, 4, 6))
        IN
        IF DatetimeError(year, month, day) # ""
        THEN ParseError(sym, DatetimeError(year, month, day))
        ELSE IF ~IntParses(strike_str)
        THEN ParseError(sym, "invalid literal for int() with base 10")
        ELSE [ok |-> TRUE, ticker |-> ticker,
              expiration_date |-> <<year, month, day>>,
              strike_price |-> IntOf(strike_str),
              option_type |-> option_type]

-----------------------------------------------------------------------------
(* Python values                                                           *)

PyInt(n) == [t |-> "int", n |-> n]
PyStr(s) == [t |-> "str", s |-> s]
PyBool(b) == [t |-> "bool", b |-> b]
PyNone == [t |-> "NoneType"]
PyDict(d) == [t |-> "dict", d |-> d]
PyList(l) == [t |-> "list", l |-> l]

\* A str holding a JSON document that denotes doc, and one that is not JSON.
JsonText(doc) == [t |-> "str", text |-> "json", doc |-> doc]
BadJsonText == [t |-> "str", text |-> "malformed"]

\* item.get(field, default)
Get(item, field, default) ==
    IF field \in DOMAIN item.d THEN item.d[field] ELSE default

\* v == 1 in Python: the int 1, and True, which compares equal to 1.
EqualsOne(v) == v = PyInt(1) \/ v = PyBool(TRUE)

-----------------------------------------------------------------------------
(* Position, Stock, Option                                                 *)

common_fields ==
    <<"quantity", "symbol", "sec_type", "market_value", "cost", "unit_cost",
      "adj_cost", "adj_unit_cost", "adj_gainloss", "adj_gainloss_percent",
      "company_name", "last", "bid", "ask", "vol", "close", "change",
      "change_percent", "time", "purchase_date", "day_held">>

stock_fields ==
    <<"eps", "pe", "div_share", "yield", "ex_div_date", "div_date",
      "market_cap", "beta", "annual_div_rate", "avg_vol", "52w_high",
      "52w_low", "has_lots", "open_px", "day_high", "day_low">>

option_fields ==
    <<"asksize", "bidsize", "today_share", "today_exe_price", "drip", "loan">>

Range(seq) == {seq[k] : k \in 1..Len(seq)}

\* The attributes Position.__init__ assigns, each from its own argument.
PositionInit(kwargs) == [a \in Range(common_fields) |-> kwargs[a]]

\* The parameter names of Stock.__init__ beyond those of Position.
StockParams ==
    {"eps", "pe", "div_share", "yield_", "ex_div_date", "div_date",
     "market_cap", "beta", "annual_div_rate", "avg_vol", "_52w_high",
     "_52w_low", "has_lots", "open_px", "day_high", "day_low"}

StockInit(kwargs) ==
    [ok |-> TRUE,
     obj |-> [cls |-> "Stock",
              attrs |-> [a \in Range(common_fields) \cup StockParams |->
                           IF a \in Range(common_fields)
                           THEN PositionInit(kwargs)[a] ELSE kwargs[a]]]]

\* Option.__init__: the attributes are assigned, then the symbol is decoded;
\* a failure of the decoder leaves the constructor by the exception, and no
\* object results.  A symbol that is no str fails in len() with a TypeError,
\* which the decoder's except clause does not catch.
OptionInit(kwargs) ==
    IF kwargs["symbol"].t # "str"
    THEN [ok |-> FALSE, exc |-> "TypeError", cause |-> "object has no len()"]
    ELSE
      LET p == parse_option_symbol(kwargs["symbol"].s) IN
      IF ~p.ok THEN p
      ELSE [ok |-> TRUE,
            obj |-> [cls |-> "Option",
                     attrs |-> [a \in Range(common_fields) \cup Range(option_fields) |->
                                  IF a \in Range(common_fields)
                                  THEN PositionInit(kwargs)[a] ELSE kwargs[a]],
                     ticker |-> p.ticker,
                     expiration_date |-> p.expiration_date,
                     strike_price |-> p.strike_price,
                     option_type |-> p.option_type]]

-----------------------------------------------------------------------------
(* parse_positions                                                         *)

CommonNumeric ==
    {"quantity", "market_value", "cost", "unit_cost", "adj_cost",
     "adj_unit_cost", "adj_gainloss", "adj_gainloss_percent", "last", "bid",
     "ask", "vol", "close", "change", "change_percent", "day_held"}

CommonString == {"symbol", "company_name", "time", "purchase_date"}

CommonDefault(field) ==
    IF field \in CommonNumeric THEN PyInt(0)
    ELSE IF field \in CommonString THEN PyStr(<<>>)
    ELSE IF field = "sec_type" THEN PyInt(1)
    ELSE PyNone

StockNumeric ==
    {"eps", "pe", "div_share", "yield", "market_cap", "beta",
     "annual_div_rate", "avg_vol", "52w_high", "52w_low", "open_px",
     "day_high", "day_low"}

\* Mutant: the two date fields of a stock default to None.
StockDefault_DatesNone(field) ==
    IF field \in StockNumeric THEN PyInt(0)
    ELSE IF field = "has_lots" THEN PyBool(FALSE)
    ELSE PyNone

StockDefault(field) ==
    IF field \in StockNumeric THEN PyInt(0)
    ELSE IF field \in {"ex_div_date", "div_date"} THEN PyStr(<<>>)
    ELSE IF field = "has_lots" THEN PyBool(FALSE)
    ELSE PyNone

OptionDefault(field) ==
    IF field \in {"asksize", "bidsize", "today_share", "today_exe_price"}
    THEN PyInt(0)
    ELSE IF field \in {"drip", "loan"} THEN PyBool(FALSE)
    ELSE PyNone

common_kwargs(item) ==
    [field \in Range(common_fields) |-> Get(item, field, CommonDefault(field))]

stock_kwargs(item) ==
    [field \in Range(stock_fields) |-> Get(item, field, StockDefault(field))]

option_kwargs(item) ==
    [field \in Range(option_fields) |-> Get(item, field, OptionDefault(field))]

\* {**a, **b}
Merge(a, b) ==
    [k \in DOMAIN a \cup DOMAIN b |-> IF k \in DOMAIN b THEN b[k] ELSE a[k]]

\* kwargs[new] = kwargs.pop(old)
RenameKey(kwargs, old, new) ==
    [k \in (DOMAIN kwargs \ {old}) \cup {new} |->
       IF k = new THEN kwargs[old] ELSE kwargs[k]]

\* The dispatch reads item.get('sec_type') with no default: None when absent.
IsStockEntry(item) == EqualsOne(Get(item, "sec_type", PyNone))

\* The body of the loop for one entry.
NormalizeItem(item) ==
    IF item.t # "dict"
    THEN [ok |-> FALSE, exc |-> "AttributeError", cause |-> "no attribute 'get'"]
    ELSE IF IsStockEntry(item)
    THEN StockInit(RenameKey(RenameKey(RenameKey(
            Merge(common_kwargs(item), stock_kwargs(item)),
            "yield", "yield_"), "52w_high", "_52w_high"), "52w_low", "_52w_low"))
    ELSE OptionInit(Merge(common_kwargs(item), option_kwargs(item)))

\* Mutant: a failing entry is skipped and the loop goes on.
RECURSIVE Loop_SkipsFailures(_, _, _)
Loop_SkipsFailures(items, k, positions) ==
    IF k > Len(items) THEN [ok |-> TRUE, positions |-> positions]
    ELSE LET r == NormalizeItem(items[k]) IN
         Loop_SkipsFailures(items, k + 1,
                            IF r.ok THEN Append(positions, r.obj) ELSE positions)

\* for item in data['items']: ... positions.append(position); the first
\* exception leaves the loop and the function.
RECURSIVE Loop(_, _, _)
Loop(items, k, positions) ==
    IF k > Len(items) THEN [ok |-> TRUE, positions |-> positions]
    ELSE LET r == NormalizeItem(items[k]) IN
         IF r.ok THEN Loop(items, k + 1, Append(positions, r.obj)) ELSE r

json_loads(s) ==
    IF s.text = "json" THEN [ok |-> TRUE, v |-> s.doc]
    ELSE [ok |-> FALSE, exc |-> "JSONDecodeError", cause |-> "Expecting value"]

\* 'items' not in data, then data['items'], for whatever json.loads gave.
ItemsOf(data) ==
    IF data.t = "dict"
    THEN IF "items" \in DOMAIN data.d
         THEN [ok |-> TRUE, v |-> data.d["items"]]
         ELSE [ok |-> FALSE, exc |-> "KeyError",
               cause |-> "Data must contain an 'items' key"]
    ELSE IF data.t = "list"
    THEN IF PyStr(<<"i", "t", "e", "m", "s">>) \in Range(data.l)
         THEN [ok |-> FALSE, exc |-> "TypeError",
               cause |-> "list indices must be integers or slices, not str"]
         ELSE [ok |-> FALSE, exc |-> "KeyError",
               cause |-> "Data must contain an 'items' key"]
    ELSE [ok |-> FALSE, exc |-> "TypeError", cause |-> "not iterable"]

\* The try block of parse_positions.
TryBody(input) ==
    LET loaded == IF input.t = "str" THEN json_loads(input)
                  ELSE IF input.t = "dict" THEN [ok |-> TRUE, v |-> input]
                  ELSE [ok |-> FALSE, exc |-> "TypeError",
                        cause |-> "Input must be str or dict"]
    IN
    IF ~loaded.ok THEN loaded
    ELSE LET items == ItemsOf(loaded.v) IN
         IF ~items.ok THEN items
         ELSE IF items.v.t # "list"
         THEN [ok |-> FALSE, exc |-> "TypeError", cause |-> "not iterable"]
         ELSE Loop(items.v.l, 1, <<>>)

\* The except clauses: a JSONDecodeError is raised again as one, everything
\* else as a plain Exception that carries the text of the original.
parse_positions(input) ==
    LET r == TryBody(input) IN
    IF r.ok THEN [st |-> "return", positions |-> r.positions]
    ELSE IF r.exc = "JSONDecodeError"
    THEN [st |-> "raise", exc |-> "JSONDecodeError",
          prefix |-> "Invalid JSON string: ", cause |-> r]
    ELSE [st |-> "raise", exc |-> "Exception",
          prefix |-> "Error parsing positions: ", cause |-> r]

-----------------------------------------------------------------------------
(* The calls explored: symbols handed to the decoder                       *)

RECURSIVE SeqsUpTo(_, _)
SeqsUpTo(S, n) ==
    IF n = 0 THEN {<<>>}
    ELSE LET shorter == SeqsUpTo(S, n - 1) IN
         shorter \cup {Append(w, c) : w \in shorter, c \in S}

\* Tickers with a lower-case letter, a side letter and a digit in them.
Tickers == SeqsUpTo({"a", "C", "7"}, MaxTickerLen)

RawDates ==
    {yy \o mm \o dd :
        yy \in {<<"0", "0">>, <<"2", "5">>},
        mm \in {<<"0", "0">>, <<"0", "2">>, <<"0", "4">>, <<"1", "2">>, <<"1", "3">>},
        dd \in {<<"0", "0">>, <<"2", "9">>, <<"3", "0">>, <<"3", "1">>, <<"3", "2">>}}
    \cup {<<>>, <<"2", "5", "0", "6">>,
          <<"2", "5", "0", "6", "2", "X">>,
          <<"2", "5", "0", "6", "2", ArabicThree>>,
          <<"2", "5", "0", "6", "2", SuperTwo>>}

RawSides == {<<"C">>, <<"P">>, <<"X">>}

RawStrikes ==
    {<<"0", "0", "1", "5", "0", "0", "0", "0">>,
     <<"9", "9", "9", "9", "9", "9", "9", "9">>,
     <<"0", "0", "1", "5", "0", "0", "0">>,
     <<"0", "0", "1", "5", "0", "0", "0", "X">>,
     <<"0", "0", "1", "5", "0", "0", "0", ArabicThree>>,
     <<"0", "0", "1", "5", "0", "0", "0", SuperTwo>>}

RawTrailers == {<<>>, <<"X">>, <<"0">>}

\* The symbols of the docstring and of the documentation, and damaged ones.
ExampleSymbols ==
    {<<"O", "S", "C", "R", "2", "6", "0", "1", "1", "6", "P",
       "0", "0", "0", "1", "6", "0", "0", "0">>,
     <<"A", "A", "P", "L", "2", "5", "0", "6", "2", "0", "C",
       "0", "0", "1", "5", "0", "0", "0", "0">>,
     <<"A", "A", "P", "L", "2", "5", "0", "6", "2", "0", "C",
       "0", "0", "1", "5", "0", "0", "0">>,
     <<"A", "A", "P", "L", "2", "5", "0", "6", "2", "0", "C",
       "0", "0", "1", "5", "0", "0", "0", "0", "X">>,
     <<"2", "6", "0", "1", "1", "6", "P",
       "0", "0", "0", "1", "6", "0", "0", "0">>,
     <<"B", "A", "D", "S", "Y", "M", "B", "O", "L">>}

RawSymbols ==
    {t \o d \o s \o k \o x :
        t \in Tickers, d \in RawDates, s \in RawSides, k \in RawStrikes,
        x \in RawTrailers}
    \cup ExampleSymbols

\* The Gregorian calendar of the years 2000..2099: leap every fourth year.
MonthLengths(y) ==
    <<31, IF y % 4 = 0 THEN 29 ELSE 28, 31, 30, 31, 30, 31, 31, 30, 31, 30, 31>>

IsCalendarDate(y, m, d) == m \in 1..12 /\ d \in 1..MonthLengths(y)[m]

\* The structured tuples a caller encodes in the documented format.
Tuples ==
    {tup \in
     {[given |-> TRUE, ticker |-> t, expiration_date |-> <<y, m, d>>,
      strike_price |-> k, option_type |-> o] :
        t \in Tickers \ {<<>>},
        y \in {2000, 2025, 2099}, m \in {2, 12}, d \in {1, 29, 31},
        k \in {0, 1, 150000, 99999999}, o \in {"Call", "Put"}} :
     IsCalendarDate(tup.expiration_date[1], tup.expiration_date[2],
                    tup.expiration_date[3])}

NoSource == [given |-> FALSE]

DigitChars == <<"0", "1", "2", "3", "4", "5", "6", "7", "8", "9">>

\* n as w decimal digits, zero-padded.
RECURSIVE Pad(_, _)
Pad(n, w) ==
    IF w = 0 THEN <<>> ELSE Append(Pad(n \div 10, w - 1), DigitChars[(n % 10) + 1])

\* <TICKER><YYMMDD><C|P><8-digit strike in thousandths>
Encode(tup) ==
    tup.ticker \o Pad(tup.expiration_date[1] % 100, 2)
               \o Pad(tup.expiration_date[2], 2)
               \o Pad(tup.expiration_date[3], 2)
               \o (IF tup.option_type = "Call" THEN <<"C">> ELSE <<"P">>)
               \o Pad(tup.strike_price, 8)

\* The remaining arguments of a direct Option(...) call.
OptionArgs(sym) ==
    [a \in Range(common_fields) \cup Range(option_fields) |->
       IF a = "symbol" THEN PyStr(sym)
       ELSE IF a = "sec_type" THEN PyInt(2)
       ELSE IF a \in {"drip", "loan"} THEN PyBool(FALSE)
       ELSE IF a \in CommonString THEN PyStr(<<>>)
       ELSE PyInt(0)]

-----------------------------------------------------------------------------
(* The calls explored: record collections handed to parse_positions        *)

AllFields == Range(common_fields) \cup Range(stock_fields) \cup Range(option_fields)

PresentValue(field) ==
    IF field \in CommonString \cup {"ex_div_date", "div_date"} THEN PyStr(<<"x">>)
    ELSE IF field \in {"has_lots", "drip", "loan"} THEN PyBool(TRUE)
    ELSE PyInt(7)

\* An entry with every declared field but the omitted ones.
Entry(sec, sym, omitted) ==
    PyDict([f \in AllFields \ omitted |->
              IF f = "sec_type" THEN sec
              ELSE IF f = "symbol" THEN sym
              ELSE PresentValue(f)])

StockSymbol == PyStr(<<"A", "A", "P", "L">>)

GoodOptionSymbol ==
    PyStr(<<"A", "A", "P", "L", "2", "5", "0", "6", "2", "0", "C",
            "0", "0", "1", "5", "0", "0", "0", "0">>)

BadOptionSymbol ==
    PyStr(<<"A", "A", "P", "L", "2", "5", "1", "3", "2", "0", "C",
            "0", "0", "1", "5", "0", "0", "0", "0">>)

StockPool == Range(common_fields) \cup Range(stock_fields)

RECURSIVE OmitSets(_)
OmitSets(n) ==
    IF n = 0 THEN {{}}
    ELSE LET smaller == OmitSets(n - 1) IN
         smaller \cup {O \cup {f} : O \in smaller, f \in StockPool}

RichItems ==
    {Entry(PyInt(1), StockSymbol, O) : O \in OmitSets(MaxOmitted)}
    \cup
    {Entry(sec, sym, O) :
        sec \in {PyInt(1), PyInt(2), PyStr(<<"1">>)},
        sym \in {StockSymbol, GoodOptionSymbol, BadOptionSymbol},
        O \in OmitSets(1)
               \cup {AllFields \ {"sec_type"}, AllFields \ {"sec_type", "symbol"},
                     AllFields \ {"symbol"}, AllFields}}
    \cup
    {Entry(sec, sym, O) :
        sec \in {PyInt(3), PyBool(TRUE), PyBool(FALSE), PyNone},
        sym \in {StockSymbol, GoodOptionSymbol, PyNone},
        O \in {{}, {"sec_type"}}}

ListItems ==
    {Entry(PyInt(1), StockSymbol, {}),
     Entry(PyInt(2), GoodOptionSymbol, {}),
     Entry(PyInt(2), BadOptionSymbol, {}),
     Entry(PyInt(1), GoodOptionSymbol, {"sec_type"}),
     PyInt(3)}

ItemLists ==
    {<<e>> : e \in RichItems} \cup SeqsUpTo(ListItems, MaxItems)

NoKeys == [k \in {} |-> PyNone]

DataInputs ==
    {PyDict([items |-> PyList(l)]) : l \in ItemLists}
    \cup {JsonText(PyDict([items |-> PyList(l)])) : l \in SeqsUpTo(ListItems, MaxItems)}
    \cup {PyDict(NoKeys), PyDict([positions |-> PyList(<<>>)]),
          PyDict([items |-> PyNone]), PyDict([items |-> PyInt(3)]),
          JsonText(PyDict(NoKeys)), JsonText(PyList(<<>>)),
          JsonText(PyList(<<PyStr(<<"i", "t", "e", "m", "s">>)>>)),
          JsonText(PyInt(3)), JsonText(PyNone), BadJsonText,
          PyInt(3), PyNone, PyList(<<>>), PyBool(TRUE)}

-----------------------------------------------------------------------------
(* State machine                                                           *)

NotCalled == [called |-> FALSE]

Returned(r) == [called |-> TRUE, result |-> r]

\* A caller holds a symbol, raw or encoded from a tuple.
Init ==
    /\ \/ source = NoSource /\ symbol \in RawSymbols
       \/ source \in Tuples /\ symbol = Encode(source)
    /\ decoded = NotCalled
    /\ option = NotCalled
    /\ data_input = PyNone
    /\ outcome = NotCalled

\* Option.parse_option_symbol(symbol)
ParseOptionSymbol ==
    /\ ~decoded.called
    /\ decoded' = Returned(parse_option_symbol(symbol))
    /\ UNCHANGED <<symbol, source, option, data_input, outcome>>

\* Option(..., symbol=symbol, ...)
ConstructOption ==
    /\ ~option.called
    /\ option' = Returned(OptionInit(OptionArgs(symbol)))
    /\ UNCHANGED <<symbol, source, decoded, data_input, outcome>>

Next == ParseOptionSymbol \/ ConstructOption

Spec == Init /\ [][Next]_vars

\* A caller holds a record collection.
InitPositions ==
    /\ data_input \in DataInputs
    /\ outcome = NotCalled
    /\ symbol = <<>>
    /\ source = NoSource
    /\ decoded = NotCalled
    /\ option = NotCalled

\* parse_positions(data_input)
ParsePositions ==
    /\ ~outcome.called
    /\ outcome' = Returned(parse_positions(data_input))
    /\ UNCHANGED <<symbol, source, decoded, option, data_input>>

NextPositions == ParsePositions

SpecPositions == InitPositions /\ [][NextPositions]_vars

-----------------------------------------------------------------------------
(* The documented format, read off a symbol without the scan               *)

AllAscii(s) == \A k \in 1..Len(s) : s[k] \in AsciiDigits

\* The value of a decimal digit character.
DecimalValue(c) ==
    IF c = ArabicThree THEN 3 ELSE CHOOSE n \in 0..9 : DigitChars[n + 1] = c

\* The number a str of decimal digits denotes, read left to right.
RECURSIVE NumberFrom(_, _, _)
NumberFrom(s, k, acc) ==
    IF k > Len(s) THEN acc ELSE NumberFrom(s, k + 1, 10 * acc + DecimalValue(s[k]))

NumberOf(s) == NumberFrom(s, 1, 0)

\* The last 15 characters of a symbol of at least 15 characters.
Suffix(sym) == SubSeq(sym, Len(sym) - 14, Len(sym))

\* 6 ASCII digits, C or P, 8 ASCII digits, and nothing after them.
HasFormatSuffix(sym) ==
    /\ Len(sym) >= 15
    /\ AllAscii(SubSeq(Suffix(sym), 1, 6))
    /\ Suffix(sym)[7] \in {"C", "P"}
    /\ AllAscii(SubSeq(Suffix(sym), 8, 15))

SuffixDate(sym) ==
    <<2000 + NumberOf(SubSeq(Suffix(sym), 1, 2)),
      NumberOf(SubSeq(Suffix(sym), 3, 4)),
      NumberOf(SubSeq(Suffix(sym), 5, 6))>>

\* T + YYMMDD + s + K with a non-empty T and a date of the calendar.
IsDocumentedSymbol(sym) ==
    /\ Len(sym) >= 16
    /\ HasFormatSuffix(sym)
    /\ IsCalendarDate(SuffixDate(sym)[1], SuffixDate(sym)[2], SuffixDate(sym)[3])

-----------------------------------------------------------------------------
(* Claims about Option.parse_option_symbol                                 *)

\* C1: a symbol T + YYMMDD + s + K (T non-empty, YYMMDD a calendar date of
\* 20YY, s C or P, K eight ASCII digits) decodes to ticker T unmodified (the
\* split is at length - 15), the date 20YY-MM-DD, the strike K / 1000 and
\* Call for C, Put for P, also when T holds digits or the letters C or P.
C1_DecodesDocumentedSymbol ==
    (decoded.called /\ IsDocumentedSymbol(symbol)) =>
        decoded.result =
            [ok |-> TRUE,
             ticker |-> SubSeq(symbol, 1, Len(symbol) - 15),
             expiration_date |-> SuffixDate(symbol),
             strike_price |-> NumberOf(SubSeq(Suffix(symbol), 8, 15)),
             option_type |-> IF Suffix(symbol)[7] = "C" THEN "Call" ELSE "Put"]

C1_Witness ==
    /\ decoded.called
    /\ IsDocumentedSymbol(symbol)
    /\ SubSeq(symbol, 1, Len(symbol) - 15) = <<"C", "7">>
    /\ Suffix(symbol)[7] = "P"
    /\ decoded.result.ok
    /\ decoded.result.ticker = <<"C", "7">>

\* C2: every str that is not a ticker followed by exactly 6 ASCII digits, C
\* or P and 8 ASCII digits, with nothing after them, is rejected with a
\* ValueError: shorter than 15 characters, 7 strike digits, trailing
\* characters.
C2_RejectsEverythingElse ==
    (decoded.called /\ ~HasFormatSuffix(symbol)) =>
        (~decoded.result.ok /\ decoded.result.exc = "ValueError")

\* Every tuple with the symbol it encodes to.
EncodedTuples == {[symbol |-> Encode(tup), tuple |-> tup] : tup \in Tuples}

\* C3: encoding a tuple (non-empty ticker, date in 2000..2099, Call or Put,
\* strike in thousandths) in the documented format and decoding the symbol
\* gives the tuple back, so no two tuples share a symbol.
C3_RoundTrip ==
    (decoded.called /\ source.given) =>
        /\ decoded.result =
              [ok |-> TRUE, ticker |-> source.ticker,
               expiration_date |-> source.expiration_date,
               strike_price |-> source.strike_price,
               option_type |-> source.option_type]
        /\ \A e \in EncodedTuples : e.symbol = symbol => e.tuple = source

C3_Witness ==
    /\ decoded.called
    /\ source.given
    /\ source.ticker = <<"7", "C">>
    /\ source.expiration_date = <<2000, 2, 29>>
    /\ source.strike_price = 99999999
    /\ decoded.result.ok
    /\ decoded.result.strike_price = 99999999

\* C9: a successful decode returns a ticker of at least one character; the
\* bare 15-character suffix is rejected.
C9_TickerNonEmpty ==
    (decoded.called /\ decoded.result.ok) => Len(decoded.result.ticker) >= 1

\* The digits at the split the scan accepts.
AcceptedDate(sym) == SubSeq(sym, FindSplit(sym) + 1, FindSplit(sym) + 6)

\* The six digits denote a date of the calendar.
DenotesDate(digits) ==
    /\ \A k \in 1..Len(digits) : digits[k] \in AsciiDigits \cup {ArabicThree}
    /\ IsCalendarDate(2000 + NumberOf(SubSeq(digits, 1, 2)),
                      NumberOf(SubSeq(digits, 3, 4)),
                      NumberOf(SubSeq(digits, 5, 6)))

\* The decoded attributes of an Option agree with its symbol attribute.
DecodedFromSymbol(obj) ==
    LET sym == obj.attrs["symbol"].s
        n == Len(obj.ticker)
    IN
    /\ n + 14 <= Len(sym)
    /\ obj.ticker = SubSeq(sym, 1, n)
    /\ DenotesDate(SubSeq(sym, n + 1, n + 6))
    /\ obj.expiration_date =
          <<2000 + NumberOf(SubSeq(sym, n + 1, n + 2)),
            NumberOf(SubSeq(sym, n + 3, n + 4)),
            NumberOf(SubSeq(sym, n + 5, n + 6))>>
    /\ obj.option_type = (IF sym[n + 7] = "C" THEN "Call" ELSE "Put")
    /\ sym[n + 7] \in {"C", "P"}
    /\ obj.strike_price = NumberOf(SubSeq(sym, n + 8, Min(n + 15, Len(sym))))

\* C10: when the six date digits at the accepted split are no calendar
\* date, the decoder raises a ValueError that carries the symbol and returns
\* no date; the Option constructor then fails as a whole, so every Option
\* that exists has the ticker, date, strike and type decoded from its symbol.
C10_InvalidDateFails ==
    /\ (decoded.called /\ FindSplit(symbol) >= 0 /\ ~DenotesDate(AcceptedDate(symbol))) =>
          /\ ~decoded.result.ok
          /\ decoded.result.exc = "ValueError"
          /\ decoded.result.symbol = symbol
          /\ "expiration_date" \notin DOMAIN decoded.result
    /\ (option.called /\ FindSplit(symbol) >= 0 /\ ~DenotesDate(AcceptedDate(symbol))) =>
          (~option.result.ok /\ "obj" \notin DOMAIN option.result)
    /\ (option.called /\ option.result.ok) =>
          /\ option.result.obj.attrs["symbol"] = PyStr(symbol)
          /\ DecodedFromSymbol(option.result.obj)
    /\ (option.called /\ decoded.called) => option.result.ok = decoded.result.ok

C10_Witness ==
    /\ decoded.called
    /\ option.called
    /\ FindSplit(symbol) >= 0
    /\ AcceptedDate(symbol) = <<"2", "5", "0", "4", "3", "1">>
    /\ ~decoded.result.ok
    /\ ~option.result.ok

-----------------------------------------------------------------------------
(* Claims about parse_positions                                            *)

\* The document the input holds: itself, or what its JSON text denotes.
Document(input) == IF input.t = "str" THEN input.doc ELSE input

\* The input is a mapping (or the text of one) whose items is a list.
HasEntries(input) ==
    /\ input.t = "dict" \/ (input.t = "str" /\ input.text = "json")
    /\ Document(input).t = "dict"
    /\ "items" \in DOMAIN Document(input).d
    /\ Document(input).d["items"].t = "list"

Entries(input) == Document(input).d["items"].l

LacksSecType(entry) == entry.t = "dict" /\ "sec_type" \notin DOMAIN entry.d

\* C4: an entry without a sec_type key takes the Stock path and yields a
\* Stock whose sec_type is 1; only an entry whose sec_type is present and
\* different from 1 yields an Option.
C4_AbsentSecTypeIsStock ==
    (outcome.called /\ HasEntries(data_input)) =>
        LET es == Entries(data_input) IN
        /\ (Len(es) = 1 /\ LacksSecType(es[1])) => outcome.result.st = "return"
        /\ outcome.result.st = "return" =>
              \A k \in 1..Len(es) :
                 /\ LacksSecType(es[k]) =>
                       /\ outcome.result.positions[k].cls = "Stock"
                       /\ outcome.result.positions[k].attrs["sec_type"] = PyInt(1)
                 /\ outcome.result.positions[k].cls = "Option" =>
                       /\ "sec_type" \in DOMAIN es[k].d
                       /\ ~EqualsOne(es[k].d["sec_type"])

\* C5: the caller observes a KeyError when the input mapping has no items
\* key and a TypeError when the input is neither a str nor a mapping.
C5_ErrorKinds ==
    outcome.called =>
        /\ (data_input.t = "dict" /\ "items" \notin DOMAIN data_input.d) =>
              (outcome.result.st = "raise" /\ outcome.result.exc = "KeyError")
        /\ data_input.t \notin {"str", "dict"} =>
              (outcome.result.st = "raise" /\ outcome.result.exc = "TypeError")

\* C6: when the processing of any entry fails the call raises and returns
\* no list, the entries before the failing one included; when the call
\* returns, the list holds one position per entry, in the order of items.
C6_AllOrNothing ==
    (outcome.called /\ HasEntries(data_input)) =>
        LET es == Entries(data_input) IN
        /\ (\E k \in 1..Len(es) : ~NormalizeItem(es[k]).ok) =>
              /\ outcome.result.st = "raise"
              /\ "positions" \notin DOMAIN outcome.result
        /\ outcome.result.st = "return" =>
              /\ Len(outcome.result.positions) = Len(es)
              /\ \A k \in 1..Len(es) :
                    outcome.result.positions[k] = NormalizeItem(es[k]).obj

C6_Witness ==
    /\ outcome.called
    /\ HasEntries(data_input)
    /\ Len(Entries(data_input)) = 3
    /\ NormalizeItem(Entries(data_input)[1]).ok
    /\ ~NormalizeItem(Entries(data_input)[2]).ok
    /\ NormalizeItem(Entries(data_input)[3]).ok
    /\ outcome.result.st = "raise"

\* C7: a returned position is a Stock if and only if its sec_type attribute
\* equals 1.
C7_StockIffSecTypeOne ==
    (outcome.called /\ outcome.result.st = "return") =>
        \A k \in 1..Len(outcome.result.positions) :
            (outcome.result.positions[k].cls = "Stock")
                <=> EqualsOne(outcome.result.positions[k].attrs["sec_type"])

\* The attribute that stores a wire field.
AttrName(field) ==
    CASE field = "yield" -> "yield_"
      [] field = "52w_high" -> "_52w_high"
      [] field = "52w_low" -> "_52w_low"
      [] OTHER -> field

\* The defaults of the documentation: "" for the str fields, False for
\* has_lots, 0 for the numeric fields.
DocumentedDefault(field) ==
    IF field \in {"symbol", "company_name", "time", "purchase_date",
                  "ex_div_date", "div_date"} THEN PyStr(<<>>)
    ELSE IF field = "has_lots" THEN PyBool(FALSE)
    ELSE PyInt(0)

IsStockEntryOne(entry) ==
    entry.t = "dict" /\ "sec_type" \in DOMAIN entry.d /\ entry.d["sec_type"] = PyInt(1)

\* C8: an entry with sec_type = 1 and any of the other common and stock
\* fields omitted gives a Stock with 0 for each omitted numeric field, "" for
\* each omitted str field and False for has_lots; every field present is
\* copied unchanged, yield, 52w_high and 52w_low under the names yield_,
\* _52w_high and _52w_low.
C8_StockDefaults ==
    (outcome.called /\ HasEntries(data_input)) =>
        LET es == Entries(data_input) IN
        /\ (Len(es) = 1 /\ IsStockEntryOne(es[1])) => outcome.result.st = "return"
        /\ outcome.result.st = "return" =>
              \A k \in 1..Len(es) : IsStockEntryOne(es[k]) =>
                 LET pos == outcome.result.positions[k] IN
                 /\ pos.cls = "Stock"
                 /\ DOMAIN pos.attrs = {AttrName(f) : f \in StockPool}
                 /\ \A f \in StockPool :
                       pos.attrs[AttrName(f)] =
                          IF f \in DOMAIN es[k].d THEN es[k].d[f]
                          ELSE DocumentedDefault(f)

C8_Witness ==
    /\ outcome.called
    /\ HasEntries(data_input)
    /\ Len(Entries(data_input)) = 1
    /\ IsStockEntryOne(Entries(data_input)[1])
    /\ StockPool \ DOMAIN Entries(data_input)[1].d = {"yield", "ex_div_date"}
    /\ outcome.result.st = "return"
    /\ outcome.result.positions[1].attrs["yield_"] = PyInt(0)
    /\ outcome.result.positions[1].attrs["ex_div_date"] = PyStr(<<>>)
    /\ outcome.result.positions[1].attrs["_52w_high"] = PyInt(7)

====
